---- MODULE Spec2Model ----
(***************************************************************************)
(* The training driver of cnns.py: main() validates its configuration,     *)
(* sets up the privacy engine, and then runs the epoch loop with its two   *)
(* stopping rules (privacy budget, accuracy plateau), its telemetry and    *)
(* its checkpointing.                                                      *)
(*                                                                         *)
(* train(), the opacus PrivacyEngine and the accountant routines of        *)
(* dp_utils are not part of cnns.py; they are modelled from their          *)
(* contracts in the specification (sections 4.1 to 4.3) and are marked so  *)
(* below.                                                                  *)
(***************************************************************************)
EXTENDS Integers, Sequences, FiniteSets

VARIABLES
    \* arguments of main (cnns.py:25-30), fixed for the run
    batch_size, mini_batch_size, sample_batches, augment, noise_multiplier,
    max_epsilon, input_norm, early_stop, epochs,
    \* the value get_renyi_divergence(sample_rate, noise_multiplier) takes
    \* in this run (a pure function of arguments that never change)
    renyi,
    \* control
    pc, exit,
    \* locals of main; epoch is the loop index: the number of epochs that
    \* ran through to their checkpoint, and the index of the epoch under way
    n_acc_steps, rdp_norm, best_acc, flat_count, epoch, test_acc, rdp_sgd,
    epsilon,
    \* train() and the privacy engine attached to the optimizer
    batch_idx, acc_count, steps, updates, physical,
    \* run.log and the checkpoint file
    log_count, last_log, checkpoint, checkpoint_best,
    \* history: accountant queries made by the loop, largest held-out
    \* accuracy seen by the plateau check and the first epoch that had it
    acct_queries, seen_max, peak_epoch

cfg == <<batch_size, mini_batch_size, sample_batches, augment,
         noise_multiplier, max_epsilon, input_norm, early_stop, epochs, renyi>>

vars == <<batch_size, mini_batch_size, sample_batches, augment,
          noise_multiplier, max_epsilon, input_norm, early_stop, epochs,
          renyi, pc, exit, n_acc_steps, rdp_norm, best_acc, flat_count,
          epoch, test_acc, rdp_sgd, epsilon, batch_idx, acc_count, steps,
          updates, physical, log_count, last_log, checkpoint,
          checkpoint_best, acct_queries, seen_max, peak_epoch>>

(***************************************************************************)
(* Bounds of the model.                                                    *)
(***************************************************************************)
MaxBatch == 2        \* batch_size and mini_batch_size range over 1..MaxBatch
NumBatches == 2      \* len(train_loader): mini-batches in one pass
MaxAcc == 2          \* held-out accuracy ranges over 0..MaxAcc
MaxRdp == 1          \* one mechanism's RDP at one order ranges over 0..MaxRdp
MaxEps == 3          \* configured budgets range over 1..MaxEps
MaxEpochs == 2       \* epochs of a short run range over 0..MaxEpochs
MaxPeak == 1         \* long runs leave room for a peak at epochs 0..MaxPeak

(***************************************************************************)
(* Program constants.                                                      *)
(***************************************************************************)
PlateauWindow == 20

\* ORDERS of dp_utils: a fixed ascending sequence of Renyi orders > 1.
Orders == {2, 3}

\* log(1/delta) of the RDP -> (eps, delta) conversion, in the model's units.
LogInvDelta == 2

None == <<>>
Some(v) == <<v>>

ZeroRdp == [a \in Orders |-> 0]
RdpVectors == [Orders -> 0..MaxRdp]

Min(S) == CHOOSE x \in S : \A y \in S : x <= y
Max(S) == CHOOSE x \in S : \A y \in S : x >= y

(***************************************************************************)
(* Configuration checks, cnns.py:69-76.                                    *)
(***************************************************************************)
NAccStepsNoAccumulation(bs, mbs) == 1

NAccSteps(bs, mbs) == bs \div mbs

ConfigAcceptedIgnoringAugment(bs, mbs, sb, aug) ==
    /\ bs % mbs = 0
    /\ sb => (NAccSteps(bs, mbs) = 1)

ConfigAccepted(bs, mbs, sb, aug) ==
    /\ bs % mbs = 0
    /\ sb => (NAccSteps(bs, mbs) = 1 /\ ~aug)

(***************************************************************************)
(* The accountant (dp_utils), from its contract.                           *)
(***************************************************************************)
\* scatter_normalization's RDP cost; rdp_norm stays 0 unless input_norm is BN
NormRdp(norm) == IF norm = "BN" THEN RdpVectors ELSE {ZeroRdp}

\* get_renyi_divergence(...) * privacy_engine.steps
RdpSgd(r, n) == [a \in Orders |-> r[a] * n]

TotalRdpSgdOnly(norm, sgd) == sgd

\* rdp_norm + rdp_sgd
TotalRdp(norm, sgd) == [a \in Orders |-> norm[a] + sgd[a]]

\* get_privacy_spent: the smallest eps over the orders
PrivacySpent(rdp) == Min({rdp[a] + (LogInvDelta \div (a - 1)) : a \in Orders})

DoAccountingAlways(nm) == nm >= 0

DoAccounting(nm) == nm > 0

BudgetExhaustedStrict(budget, eps) == budget /= None /\ eps > budget[1]

BudgetExhausted(budget, eps) == budget /= None /\ eps >= budget[1]

(***************************************************************************)
(* The plateau rule, cnns.py:188-195.                                      *)
(***************************************************************************)
ImprovedOrEqual(acc, best) == acc >= best

Improved(acc, best) == acc > best

PlateauReachedLate(flat, stop) == flat > PlateauWindow /\ stop

PlateauReached(flat, stop) == flat >= PlateauWindow /\ stop

LoopHeadInclusive(e, n) == IF e <= n THEN "train" ELSE "done"

\* for epoch in range(0, epochs)
LoopHead(e, n) == IF e < n THEN "train" ELSE "done"

\* mini-batches of one pass that belong to a complete logical batch
FullBatches(n, k) == (n \div k) * k

CheckpointRecordSameEpoch(e, acc, best, params) ==
    [epoch |-> e, test_acc |-> acc, best_acc |-> best, state_dict |-> params]

CheckpointRecord(e, acc, best, params) ==
    [epoch |-> e + 1, test_acc |-> acc, best_acc |-> best, state_dict |-> params]

\* save_checkpoint: the file, and its "_best" copy when is_best
save_checkpoint(state, is_best, old_best) ==
    [file |-> Some(state), best |-> IF is_best THEN Some(state) ELSE old_best]

(***************************************************************************)
(* Initial states.                                                         *)
(***************************************************************************)
Start ==
    /\ pc = "start" /\ exit = "none"
    /\ n_acc_steps = 0 /\ rdp_norm = ZeroRdp
    /\ best_acc = 0 /\ flat_count = 0 /\ epoch = 0 /\ test_acc = 0
    /\ rdp_sgd = ZeroRdp /\ epsilon = None
    /\ batch_idx = 0 /\ acc_count = 0 /\ steps = 0 /\ updates = 0
    /\ physical = 0
    /\ log_count = 0 /\ last_log = None
    /\ checkpoint = None /\ checkpoint_best = None
    /\ acct_queries = 0 /\ seen_max = -1 /\ peak_epoch = 0

Arguments ==
    /\ batch_size \in 1..MaxBatch
    /\ mini_batch_size \in 1..MaxBatch
    /\ sample_batches \in BOOLEAN
    /\ augment \in BOOLEAN
    /\ noise_multiplier \in {0, 1}
    /\ max_epsilon \in {None} \cup {Some(b) : b \in 1..MaxEps}
    /\ input_norm \in {"None", "BN"}
    /\ early_stop \in BOOLEAN
    /\ epochs \in 0..(PlateauWindow + MaxPeak + 1)
    /\ renyi \in RdpVectors
    /\ (noise_multiplier = 0) => (renyi = ZeroRdp)

\* short runs, over every combination of the arguments
Init ==
    /\ Arguments /\ Start
    /\ epochs <= MaxEpochs

\* runs long enough for the plateau rule, without batch accumulation or
\* input normalization
InitLong ==
    /\ Arguments /\ Start
    /\ batch_size = 1 /\ mini_batch_size = 1
    /\ ~sample_batches /\ ~augment
    /\ input_norm = "None"
    /\ epochs >= PlateauWindow + MaxPeak - 1

(***************************************************************************)
(* Actions.                                                                *)
(***************************************************************************)
\* cnns.py:69-155: the configuration asserts, then the set-up of the run
Setup ==
    /\ pc = "start"
    /\ IF ~ConfigAccepted(batch_size, mini_batch_size, sample_batches, augment)
       THEN /\ pc' = "aborted"
            /\ exit' = "assert"
            /\ UNCHANGED <<n_acc_steps, rdp_norm>>
       ELSE /\ n_acc_steps' = NAccSteps(batch_size, mini_batch_size)
            /\ \E r \in NormRdp(input_norm) : rdp_norm' = r
            /\ pc' = LoopHead(0, epochs)
            /\ exit' = IF LoopHead(0, epochs) = "done" THEN "exhausted" ELSE "none"
    /\ UNCHANGED <<cfg, best_acc, flat_count, epoch, test_acc, rdp_sgd,
                   epsilon, batch_idx, acc_count, steps, updates, physical,
                   log_count, last_log, checkpoint, checkpoint_best,
                   acct_queries, seen_max, peak_epoch>>

\* train(): one physical mini-batch; the n_acc_steps-th of a logical batch
\* takes the optimizer step, which is also the engine's accountant step
TrainBatch ==
    /\ pc = "train"
    /\ batch_idx < FullBatches(NumBatches, n_acc_steps)
    /\ batch_idx' = batch_idx + 1
    /\ physical' = physical + 1
    /\ IF acc_count + 1 = n_acc_steps
       THEN /\ acc_count' = 0
            /\ updates' = updates + 1
            /\ steps' = steps + 1
       ELSE /\ acc_count' = acc_count + 1
            /\ UNCHANGED <<updates, steps>>
    /\ UNCHANGED <<cfg, pc, exit, n_acc_steps, rdp_norm, best_acc,
                   flat_count, epoch, test_acc, rdp_sgd, epsilon, log_count,
                   last_log, checkpoint, checkpoint_best, acct_queries,
                   seen_max, peak_epoch>>

\* train() returns at the end of the pass
TrainReturn ==
    /\ pc = "train"
    /\ batch_idx >= FullBatches(NumBatches, n_acc_steps)
    /\ batch_idx' = 0
    /\ pc' = "test"
    /\ UNCHANGED <<cfg, exit, n_acc_steps, rdp_norm, best_acc, flat_count,
                   epoch, test_acc, rdp_sgd, epsilon, acc_count, steps,
                   updates, physical, log_count, last_log, checkpoint,
                   checkpoint_best, acct_queries, seen_max, peak_epoch>>

\* cnns.py:161: test() yields the held-out accuracy
Test ==
    /\ pc = "test"
    /\ \E a \in 0..MaxAcc : test_acc' = a
    /\ pc' = "account"
    /\ UNCHANGED <<cfg, exit, n_acc_steps, rdp_norm, best_acc, flat_count,
                   epoch, rdp_sgd, epsilon, batch_idx, acc_count, steps,
                   updates, physical, log_count, last_log, checkpoint,
                   checkpoint_best, acct_queries, seen_max, peak_epoch>>

\* cnns.py:163-174: epsilon after the epoch, and the budget rule
Account ==
    /\ pc = "account"
    /\ IF DoAccounting(noise_multiplier)
       THEN LET sgd == RdpSgd(renyi, steps)
                eps == PrivacySpent(TotalRdp(rdp_norm, sgd))
            IN  /\ rdp_sgd' = sgd
                /\ epsilon' = Some(eps)
                /\ acct_queries' = acct_queries + 1
                /\ IF BudgetExhausted(max_epsilon, eps)
                   THEN pc' = "done" /\ exit' = "budget"
                   ELSE pc' = "log" /\ exit' = exit
       ELSE /\ epsilon' = None
            /\ pc' = "log"
            /\ UNCHANGED <<rdp_sgd, acct_queries, exit>>
    /\ UNCHANGED <<cfg, n_acc_steps, rdp_norm, best_acc, flat_count, epoch,
                   test_acc, batch_idx, acc_count, steps, updates, physical,
                   log_count, last_log, checkpoint, checkpoint_best,
                   seen_max, peak_epoch>>

\* cnns.py:176-185: the per-epoch telemetry record
Log ==
    /\ pc = "log"
    /\ last_log' = Some([epoch |-> epoch, test_acc |-> test_acc,
                         epsilon |-> epsilon])
    /\ log_count' = log_count + 1
    /\ pc' = "plateau"
    /\ UNCHANGED <<cfg, exit, n_acc_steps, rdp_norm, best_acc, flat_count,
                   epoch, test_acc, rdp_sgd, epsilon, batch_idx, acc_count,
                   steps, updates, physical, checkpoint, checkpoint_best,
                   acct_queries, seen_max, peak_epoch>>

\* cnns.py:187-195: the plateau rule
Plateau ==
    /\ pc = "plateau"
    /\ IF Improved(test_acc, best_acc)
       THEN /\ best_acc' = test_acc
            /\ flat_count' = 0
            /\ pc' = "save" /\ exit' = exit
       ELSE /\ best_acc' = best_acc
            /\ flat_count' = flat_count + 1
            /\ IF PlateauReached(flat_count + 1, early_stop)
               THEN pc' = "done" /\ exit' = "plateau"
               ELSE pc' = "save" /\ exit' = exit
    /\ seen_max' = IF test_acc > seen_max THEN test_acc ELSE seen_max
    /\ peak_epoch' = IF test_acc > seen_max THEN epoch ELSE peak_epoch
    /\ UNCHANGED <<cfg, n_acc_steps, rdp_norm, epoch, test_acc, rdp_sgd,
                   epsilon, batch_idx, acc_count, steps, updates, physical,
                   log_count, last_log, checkpoint, checkpoint_best,
                   acct_queries>>

\* cnns.py:197-208 and 19-22: the checkpoint, then the next iteration
SaveCheckpoint ==
    /\ pc = "save"
    /\ LET saved == save_checkpoint(
                        CheckpointRecord(epoch, test_acc, best_acc, updates),
                        TRUE, checkpoint_best)
       IN  /\ checkpoint' = saved.file
           /\ checkpoint_best' = saved.best
    /\ epoch' = epoch + 1
    /\ pc' = LoopHead(epoch + 1, epochs)
    /\ exit' = IF LoopHead(epoch + 1, epochs) = "done" THEN "exhausted" ELSE exit
    /\ UNCHANGED <<cfg, n_acc_steps, rdp_norm, best_acc, flat_count,
                   test_acc, rdp_sgd, epsilon, batch_idx, acc_count, steps,
                   updates, physical, log_count, last_log, acct_queries,
                   seen_max, peak_epoch>>

Next ==
    \/ Setup
    \/ TrainBatch
    \/ TrainReturn
    \/ Test
    \/ Account
    \/ Log
    \/ Plateau
    \/ SaveCheckpoint

Spec == Init /\ [][Next]_vars

SpecLong == InitLong /\ [][Next]_vars

(***************************************************************************)
(* Properties of the driver.                                               *)
(***************************************************************************)
Terminal == pc \in {"done", "aborted"}

\* the loop has left train(): the engine's step count is about to be read,
\* or has been, for this epoch
AfterTrain == pc \in {"test", "account", "log", "plateau", "save", "done"}

\* the epsilon of this epoch has been computed and not yet overtaken by
\* further training
EpsilonCurrent ==
    /\ epsilon /= None
    /\ pc \in {"log", "plateau", "save"} \/ (pc = "done" /\ exit = "budget")

\* C1: with noise_multiplier > 0 and a configured max_epsilon, an epsilon
\* that is >= max_epsilon is only ever held by a run that has returned
\* because of the budget; that return happens in the accounting step itself,
\* without training, logging or saving, and nothing runs after a return.
C1_BudgetStop ==
    /\ [](( /\ noise_multiplier > 0
            /\ max_epsilon /= None
            /\ epsilon /= None
            /\ epsilon[1] >= max_epsilon[1])
          => (pc = "done" /\ exit = "budget"))
    /\ [][ /\ ~Terminal
           /\ (pc = "account" /\ pc' = "done")
                => /\ exit' = "budget"
                   /\ UNCHANGED <<epoch, steps, updates, physical, log_count,
                                  last_log, checkpoint, best_acc, flat_count>>
         ]_vars

\* a budget of 3 is reached exactly, after the second epoch
C1_Witness ==
    /\ pc = "done" /\ exit = "budget"
    /\ epoch = 1
    /\ epsilon = max_epsilon

\* C2 as claimed: after a budget stop, the epsilon of the last record given
\* to run.log is >= max_epsilon.
C2_LastLoggedEpsilonAtLeastBudget ==
    (pc = "done" /\ exit = "budget")
        => /\ last_log /= None
           /\ last_log[1].epsilon /= None
           /\ last_log[1].epsilon[1] >= max_epsilon[1]

\* C2, amended: after a budget stop (which comes before the configured
\* epoch count is reached) the last epsilon computed is >= max_epsilon, but
\* the stopping epoch hands no record to run.log: the records are those of
\* the epochs before it, and the epsilon of the last one is < max_epsilon.
C2_BudgetStopTelemetry ==
    (pc = "done" /\ exit = "budget")
        => /\ epoch < epochs
           /\ epsilon /= None /\ epsilon[1] >= max_epsilon[1]
           /\ log_count = epoch
           /\ (epoch = 0) => (last_log = None)
           /\ (epoch > 0) => /\ last_log /= None
                             /\ last_log[1].epoch = epoch - 1
                             /\ last_log[1].epsilon /= None
                             /\ last_log[1].epsilon[1] < max_epsilon[1]

C2_Witness ==
    /\ pc = "done" /\ exit = "budget"
    /\ epoch >= 1
    /\ log_count = epoch
    /\ last_log /= None
    /\ last_log[1].epsilon[1] < max_epsilon[1]

\* the configurations the claim says must be rejected
Rejected ==
    \/ batch_size % mini_batch_size /= 0
    \/ sample_batches /\ (batch_size \div mini_batch_size) /= 1
    \/ sample_batches /\ augment

\* C4: a rejected configuration aborts main in its first step with a failed
\* assertion; no epoch, optimizer step, accountant step, record or
\* checkpoint ever happens for it, and the arguments are never altered.
C4_ConfigRejected ==
    /\ [](Rejected
          => /\ pc \in {"start", "aborted"}
             /\ (pc = "aborted") => (exit = "assert")
             /\ epoch = 0 /\ batch_idx = 0 /\ steps = 0 /\ updates = 0
             /\ physical = 0 /\ acct_queries = 0 /\ n_acc_steps = 0
             /\ log_count = 0 /\ checkpoint = None)
    /\ [][ /\ (pc = "start" /\ Rejected) => (pc' = "aborted")
           /\ UNCHANGED cfg ]_vars

C4_Witness ==
    /\ pc = "aborted"
    /\ sample_batches /\ augment
    /\ batch_size = mini_batch_size

\* C8: parameter updates and accountant steps never drift apart; between
\* passes of train() no logical batch is half accumulated, every update has
\* consumed batch_size // mini_batch_size physical sub-batches, and the
\* rdp_sgd of the epoch is the per-step RDP times the number of updates.
C8_AccumulationEquivalence ==
    /\ steps = updates
    /\ physical = steps * n_acc_steps + acc_count
    /\ AfterTrain
         => /\ acc_count = 0
            /\ physical = updates * (batch_size \div mini_batch_size)
    /\ (EpsilonCurrent /\ noise_multiplier > 0)
         => \A a \in Orders : rdp_sgd[a] = renyi[a] * updates

C8_Witness ==
    /\ pc = "log"
    /\ noise_multiplier > 0
    /\ batch_size \div mini_batch_size = 2
    /\ updates >= 1
    /\ physical = 2 * updates

\* C9: the epsilon the budget rule tests is the conversion of
\* rdp_norm + (per-step RDP) * steps; rdp_norm is fixed by the set-up (all
\* zero unless input_norm is BN) and the loop never changes it; from one
\* epoch to the next neither the cumulative RDP nor epsilon decreases.
C9_CumulativeCost ==
    /\ [](EpsilonCurrent
          => epsilon[1] = Min({rdp_norm[a] + renyi[a] * steps
                                 + (LogInvDelta \div (a - 1)) : a \in Orders}))
    /\ []((input_norm /= "BN") => (rdp_norm = ZeroRdp))
    /\ [][ /\ (pc /= "start") => (rdp_norm' = rdp_norm)
           /\ \A a \in Orders : rdp_sgd'[a] >= rdp_sgd[a]
           /\ (epsilon /= None /\ epsilon' /= None)
                => (epsilon'[1] >= epsilon[1]) ]_vars

C9_Witness ==
    /\ pc = "log"
    /\ input_norm = "BN" /\ rdp_norm /= ZeroRdp
    /\ epsilon /= None
    /\ last_log /= None
    /\ epsilon[1] > last_log[1].epsilon[1]
    /\ epsilon[1] > PrivacySpent(rdp_sgd)

\* optimizer steps of one pass of train()
UpdatesPerEpoch == NumBatches \div n_acc_steps

\* the plateau check of the current epoch has been made
PlateauChecked == pc = "save" \/ (pc = "done" /\ exit = "plateau")

\* the last epoch whose held-out accuracy was a strict improvement on
\* everything before it and on the initial best_acc of 0; -1 if none was
LastImprovement == IF seen_max > 0 THEN peak_epoch ELSE -1

\* C3 as claimed: the plateau rule ends the run at epoch p + 20, p being the
\* epoch at which held-out accuracy first reached its best value, in a run
\* configured with more than p + 20 epochs.
C3_PlateauStopAtPeakPlusWindow ==
    (pc = "done" /\ exit = "plateau" /\ epochs > peak_epoch + PlateauWindow)
        => (epoch = peak_epoch + PlateauWindow)

\* C3, amended: with early_stop enabled and a best held-out accuracy above
\* 0, first reached at epoch p, the plateau rule ends the run at epoch
\* p + 20, not earlier and not later; when held-out accuracy never exceeds
\* the initial best_acc of 0, no epoch counts as an improvement and the rule
\* ends the run at epoch 19, the twentieth epoch.
C3_PlateauTiming ==
    /\ (pc = "done" /\ exit = "plateau")
         => /\ early_stop
            /\ (seen_max > 0) => (epoch = peak_epoch + PlateauWindow)
            /\ (seen_max = 0) => (epoch = PlateauWindow - 1)
    /\ (pc = "save" /\ early_stop)
         => /\ (seen_max > 0) => (epoch < peak_epoch + PlateauWindow)
            /\ (seen_max = 0) => (epoch < PlateauWindow - 1)

C3_Witness ==
    /\ pc = "done" /\ exit = "plateau"
    /\ seen_max > 0
    /\ peak_epoch = MaxPeak
    /\ epoch = MaxPeak + PlateauWindow

\* C5 as claimed: at termination the checkpoint describes the last epoch
\* that was trained and evaluated, the terminating one included.
C5_CheckpointDescribesLastEpoch ==
    (pc = "done" /\ log_count + acct_queries > 0)
        => /\ checkpoint /= None
           /\ checkpoint[1].epoch =
                 (IF exit \in {"budget", "plateau"} THEN epoch + 1 ELSE epoch)
           /\ checkpoint[1].state_dict = updates

\* C5, amended: the training state is persisted after every epoch that does
\* not terminate the run, always together with its "_best" copy. An epoch
\* that ends the run by budget exhaustion or by the plateau rule returns
\* before the checkpoint is written, so the checkpoint on disk at such a
\* termination is that of the epoch before (none if the first epoch ends
\* the run) and lacks the parameter updates of the last epoch.
C5_CheckpointAfterCompletedEpochs ==
    /\ checkpoint_best = checkpoint
    /\ (epoch = 0) => (checkpoint = None)
    /\ (epoch > 0)
         => /\ checkpoint /= None
            /\ checkpoint[1].epoch = epoch
            /\ checkpoint[1].state_dict = epoch * UpdatesPerEpoch
    /\ (pc = "done" /\ exit = "exhausted" /\ epochs > 0)
         => checkpoint[1] = [epoch |-> epochs, test_acc |-> test_acc,
                             best_acc |-> best_acc, state_dict |-> updates]
    /\ (pc = "done" /\ exit \in {"budget", "plateau"})
         => /\ updates = (epoch + 1) * UpdatesPerEpoch
            /\ (checkpoint /= None) => (checkpoint[1].state_dict < updates)

C5_Witness ==
    /\ pc = "done" /\ exit = "plateau"
    /\ checkpoint /= None
    /\ checkpoint[1].epoch = epoch
    /\ log_count = epoch + 1

\* C6: with noise_multiplier = 0 the loop never queries the accountant,
\* epsilon is None in the run and in every telemetry record, and the run
\* never ends by the budget rule, whatever max_epsilon is: it ends by epoch
\* exhaustion or by the plateau rule.
C6_NoAccountingWithoutNoise ==
    (noise_multiplier = 0)
        => /\ acct_queries = 0
           /\ epsilon = None
           /\ rdp_sgd = ZeroRdp
           /\ (last_log /= None) => (last_log[1].epsilon = None)
           /\ exit /= "budget"
           /\ (pc = "done") => (exit \in {"exhausted", "plateau"})

C6_Witness ==
    /\ noise_multiplier = 0
    /\ max_epsilon = Some(1)
    /\ pc = "done" /\ exit = "plateau"
    /\ last_log /= None /\ last_log[1].epsilon = None

\* steps left in the run, at most: strictly smaller after every step
StepsPerEpoch == NumBatches + 7
Position ==
    CASE pc = "start"   -> -1
      [] pc = "train"   -> batch_idx
      [] pc = "test"    -> NumBatches + 1
      [] pc = "account" -> NumBatches + 2
      [] pc = "log"     -> NumBatches + 3
      [] pc = "plateau" -> NumBatches + 4
      [] pc = "save"    -> NumBatches + 5
      [] OTHER          -> 0
Remaining ==
    IF Terminal THEN 0 ELSE (epochs - epoch) * StepsPerEpoch - Position

BudgetStopPossible == noise_multiplier > 0 /\ max_epsilon /= None

\* C7: the loop never starts more than `epochs` epochs and always reaches
\* its end (every step brings it closer, and it is never stuck before); a
\* run that ends early has exhausted its budget or hit the plateau with
\* early_stop enabled; without either rule exactly `epochs` epochs are run.
C7_DriverTerminates ==
    /\ [](/\ epoch <= epochs
          /\ (pc \notin {"start", "aborted", "done"}) => (epoch < epochs)
          /\ Remaining >= 0
          /\ Terminal \/ ENABLED Next)
    /\ [][Remaining' < Remaining]_vars
    /\ []((pc = "done")
          => /\ exit \in {"exhausted", "budget", "plateau"}
             /\ (exit = "exhausted")
                  => /\ epoch = epochs /\ log_count = epochs
                     /\ updates = epochs * UpdatesPerEpoch
             /\ (exit = "budget")
                  => /\ BudgetStopPossible
                     /\ epsilon[1] >= max_epsilon[1]
                     /\ epoch < epochs
             /\ (exit = "plateau")
                  => /\ early_stop
                     /\ flat_count >= PlateauWindow
                     /\ epoch < epochs
             /\ (~early_stop /\ ~BudgetStopPossible) => (exit = "exhausted"))

C7_Witness ==
    /\ pc = "done" /\ exit = "exhausted"
    /\ ~early_stop
    /\ flat_count > PlateauWindow
    /\ epoch = epochs

\* C10: once an epoch has made the plateau check, best_acc is the largest
\* of 0 and the held-out accuracies checked so far and flat_count is the
\* number of checks since the last strict improvement; a checkpoint never
\* records a best_acc below its test_acc; with early_stop enabled no epoch
\* starts with flat_count at 20 or more.
C10_PlateauBookkeeping ==
    /\ PlateauChecked
         => /\ seen_max >= 0
            /\ best_acc = Max({0, seen_max})
            /\ flat_count = epoch - LastImprovement
            /\ (flat_count = 0) <=> (test_acc > 0 /\ peak_epoch = epoch)
    /\ (checkpoint /= None)
         => (checkpoint[1].best_acc >= checkpoint[1].test_acc)
    /\ (early_stop /\ pc \in {"train", "test", "account", "log", "plateau"})
         => (flat_count < PlateauWindow)

C10_Witness ==
    /\ pc = "save" /\ early_stop
    /\ flat_count = PlateauWindow - 1
    /\ best_acc = MaxAcc
    /\ test_acc < best_acc
    /\ checkpoint /= None /\ checkpoint[1].best_acc > checkpoint[1].test_acc

====
